---- MODULE Spec2Model ----
(***************************************************************************)
(* xmod.c: simplified XMODEM/CRC.  Two devices run the code: `dl` runs     *)
(* xmod_download (the receiver), `ul` runs xmod_upload (the sender).  Each *)
(* device has its own copy of the file's static variables and its own      *)
(* buffer, timer and UART.  dl_in holds the bytes that have arrived at the *)
(* receiver's UART, ul_in those that have arrived at the sender's UART.    *)
(* Under Spec and SpecDeep the receiver talks to a host that sends frames  *)
(* and control bytes of its choosing (SpecDeep allows one more send);      *)
(* under SpecHappy the two devices talk to each other over a lossless      *)
(* in-order line and no timeout fires.                                     *)
(* Under SpecUpload the sender talks to a host that sends control bytes    *)
(* of its choosing; under SpecLink the two devices talk to each other,     *)
(* bytes on the line may be late and either side may time out; SpecCrc     *)
(* feeds xmod_crc_update alone.                                            *)
(***************************************************************************)
EXTENDS Integers, Sequences, FiniteSets, TLC

\* ---------------------------------------------------------------- constants

XMOD_BUFFSIZE == 256
MAXRETRY == 15
TIMEOUT_MS == 1000
X_SOH == 1
X_EOT == 4
X_ACK == 6
X_NAK == 21
X_ETB == 23
X_CAN == 24
POLY == 4129
\* 'C', the handshake byte
X_C == 67
\* payload bytes of one block (the literal 128 of the source)
BlockLen == 128
\* uint16_t and uint8_t
U16 == 65536
U8 == 256

\* the values of the enum STATE
STATES == {"TRANS_AWAIT", "TRANS_RUN", "TRANS_ABORT", "TRANS_BLOCK",
           "TRANS_BLOCK2", "TRANS_CRC1", "TRANS_CRC2", "TRANS_END"}

\* ------------------------------------------------------------------- bounds

\* frames and control bytes the host sends in one download session, under
\* Spec and under SpecDeep
MaxHostSends == 2
MaxDeepSends == 3
\* the host only starts a transmission while the receiver has timed out at
\* most this many times (afterwards the host stays silent for good)
MaxQuiet == 1
\* longest byte sequence folded into a CRC under SpecCrc
MaxCrcLen == 3
\* bytes the host sends to the sender under SpecUpload
MaxUpSends == 3
\* timeouts each device may run into under SpecLink
MaxLinkRetries == 1

\* ------------------------------------------------------------------ helpers

\* bit i of a
Bit(a, i) == (a \div (2 ^ i)) % 2

\* bit i of a ^ b, and of a | b, in its place
XorBit(a, b, i) == ((Bit(a, i) + Bit(b, i)) % 2) * (2 ^ i)
OrBit(a, b, i) == (IF Bit(a, i) + Bit(b, i) > 0 THEN 1 ELSE 0) * (2 ^ i)

\* a ^ b of uint16_t operands
BitXor(a, b) ==
  XorBit(a, b, 0) + XorBit(a, b, 1) + XorBit(a, b, 2) + XorBit(a, b, 3)
  + XorBit(a, b, 4) + XorBit(a, b, 5) + XorBit(a, b, 6) + XorBit(a, b, 7)
  + XorBit(a, b, 8) + XorBit(a, b, 9) + XorBit(a, b, 10) + XorBit(a, b, 11)
  + XorBit(a, b, 12) + XorBit(a, b, 13) + XorBit(a, b, 14) + XorBit(a, b, 15)

\* a | b of uint16_t operands
BitOr(a, b) ==
  OrBit(a, b, 0) + OrBit(a, b, 1) + OrBit(a, b, 2) + OrBit(a, b, 3)
  + OrBit(a, b, 4) + OrBit(a, b, 5) + OrBit(a, b, 6) + OrBit(a, b, 7)
  + OrBit(a, b, 8) + OrBit(a, b, 9) + OrBit(a, b, 10) + OrBit(a, b, 11)
  + OrBit(a, b, 12) + OrBit(a, b, 13) + OrBit(a, b, 14) + OrBit(a, b, 15)

\* one round of the loop of xmod_crc_update
CrcRound(acc) ==
  IF acc >= 32768 THEN BitXor((acc * 2) % U16, POLY) ELSE (acc * 2) % U16

\* CrcRound of every accumulator, computed once: entry acc + 1 is
\* CrcRound(acc)
CrcRoundTable == SubSeq([i \in 1 .. U16 |-> CrcRound(i - 1)], 1, U16)
Round(acc) == CrcRoundTable[acc + 1]

\* xmod_crc_update that XORs the input into the low octet
xmod_crc_update_low_octet(CRC_acc, CRC_input) ==
  Round(Round(Round(Round(Round(Round(Round(Round(
    BitXor(CRC_acc, CRC_input)))))))))

\* CRC_acc ^= CRC_input << 8, then the eight rounds
xmod_crc_update(CRC_acc, CRC_input) ==
  Round(Round(Round(Round(Round(Round(Round(Round(
    BitXor(CRC_acc, (CRC_input * 256) % U16)))))))))

RECURSIVE CrcOf(_, _, _, _)
\* the accumulator after folding bytes lo..hi of s into acc, one byte at a
\* time in the order of the indices (the left half is folded first and its
\* result bound before the right half is folded)
CrcOf(acc, s, lo, hi) ==
  IF lo > hi THEN acc
  ELSE IF lo = hi THEN xmod_crc_update(acc, s[lo])
  ELSE CHOOSE r \in {CrcOf(left, s, ((lo + hi) \div 2) + 1, hi) :
                       left \in {CrcOf(acc, s, lo, (lo + hi) \div 2)}} : TRUE

\* ---------------------------------------------------------------- the state

VARIABLES
  dl,      \* the receiving device: its statics, buffer, timer and position
  ul,      \* the sending device: the same fields
  dl_in,   \* bytes that have arrived at the receiver's UART, oldest first
  ul_in,   \* bytes that have arrived at the sender's UART, oldest first
  host,    \* what the host has done in this session
  g,       \* observations of the receiver's current and previous frame
  xlog     \* the transmissions of both devices, in order, since the host
           \* last transmitted (with no host: since the start)

vars == <<dl, ul, dl_in, ul_in, host, g, xlog>>

\* The statics of xmod.c at program start (zero-initialised), the caller's
\* buffer, the timer the environment provides (millis) and where the device
\* is in the function it runs (pc): "idle" before the call, "loop" in the
\* do-while loop, "drain" after it (xmod_download only), "done" after the
\* return, "undefined" after a store outside the buffer that did damage.
Device(buf, ms) ==
  [pc |-> "idle", state |-> "TRANS_AWAIT", retrycount |-> 0, counter |-> 0,
   current_crc |-> 0, crc_recv |-> 0, mempos |-> 0, blocknum |-> 0,
   last_succeeded_block |-> 0, buffer |-> buf, millis |-> ms]

ZeroBuffer == [i \in 0 .. XMOD_BUFFSIZE - 1 |-> 0]

\* values an external timer can hold when a session starts
TimerValues == {0, TIMEOUT_MS, TIMEOUT_MS + 1}

\* ------------------------------------------------------- the receive side

\* What one call of handlebyte gives back: the statics afterwards (state
\* holds the value the function returns, which its only caller stores there),
\* the bytes it passed to uart_putc, and the index of the buffer store it
\* made (-1: none).
Step(s, out, store) == [s |-> s, out |-> out, store |-> store]

\* TRANS_AWAIT in which ETB is not an end of transmission
handlebyte_AWAIT_no_etb(s, d) ==
  IF d = X_SOH THEN
    Step([s EXCEPT !.counter = 0, !.current_crc = 0, !.state = "TRANS_BLOCK"],
         <<>>, -1)
  ELSE IF d = X_EOT THEN
    Step([s EXCEPT !.state = "TRANS_END"], <<X_ACK, X_ACK>>, -1)
  ELSE
    Step([s EXCEPT !.state = "TRANS_ABORT"], <<>>, -1)

\* state == TRANS_AWAIT: start of block, end of transmission, end of
\* transmission block, anything else
handlebyte_AWAIT(s, d) ==
  IF d = X_SOH THEN
    Step([s EXCEPT !.counter = 0, !.current_crc = 0, !.state = "TRANS_BLOCK"],
         <<>>, -1)
  ELSE IF d = X_EOT THEN
    Step([s EXCEPT !.state = "TRANS_END"], <<X_ACK, X_ACK>>, -1)
  ELSE IF d = X_ETB THEN
    Step([s EXCEPT !.state = "TRANS_END"], <<X_ACK>>, -1)
  ELSE
    Step([s EXCEPT !.state = "TRANS_ABORT"], <<>>, -1)

\* state == TRANS_BLOCK
handlebyte_BLOCK(s, d) ==
  Step([s EXCEPT !.blocknum = d, !.state = "TRANS_BLOCK2"], <<>>, -1)

\* TRANS_BLOCK2 without the test of the complement byte
handlebyte_BLOCK2_unchecked(s, d) ==
  IF s.blocknum = s.last_succeeded_block THEN
    Step([s EXCEPT !.mempos = (s.mempos - BlockLen) % U16,
                   !.state = "TRANS_RUN"], <<>>, -1)
  ELSE
    Step([s EXCEPT !.state = "TRANS_RUN"], <<>>, -1)

\* state == TRANS_BLOCK2
handlebyte_BLOCK2(s, d) ==
  IF s.blocknum # 255 - d THEN
    Step([s EXCEPT !.state = "TRANS_ABORT"], <<>>, -1)
  ELSE IF s.blocknum = s.last_succeeded_block THEN
    Step([s EXCEPT !.mempos = (s.mempos - BlockLen) % U16,
                   !.state = "TRANS_RUN"], <<>>, -1)
  ELSE
    Step([s EXCEPT !.state = "TRANS_RUN"], <<>>, -1)

\* TRANS_RUN that takes an EOT among the payload for the end of transmission
handlebyte_RUN_eot_ends(s, d) ==
  IF d = X_EOT THEN
    Step([s EXCEPT !.state = "TRANS_END"], <<X_ACK, X_ACK>>, -1)
  ELSE
    Step([s EXCEPT
            !.counter = s.counter + 1,
            !.current_crc = xmod_crc_update(s.current_crc, d),
            !.buffer = IF s.mempos < XMOD_BUFFSIZE
                       THEN [s.buffer EXCEPT ![s.mempos] = d] ELSE s.buffer,
            !.mempos = (s.mempos + 1) % U16,
            !.state = IF s.counter + 1 = BlockLen THEN "TRANS_CRC1"
                      ELSE "TRANS_RUN"],
         <<>>, s.mempos)

\* state == TRANS_RUN.  buffer[mempos++] = d with mempos >= XMOD_BUFFSIZE
\* stores outside the buffer: the buffer itself keeps its content, and what
\* the store hits is chosen by the caller of this operator (DownloadByte).
handlebyte_RUN(s, d) ==
  Step([s EXCEPT
          !.counter = s.counter + 1,
          !.current_crc = xmod_crc_update(s.current_crc, d),
          !.buffer = IF s.mempos < XMOD_BUFFSIZE
                     THEN [s.buffer EXCEPT ![s.mempos] = d] ELSE s.buffer,
          !.mempos = (s.mempos + 1) % U16,
          !.state = IF s.counter + 1 = BlockLen THEN "TRANS_CRC1"
                    ELSE "TRANS_RUN"],
       <<>>, s.mempos)

\* state == TRANS_CRC1
handlebyte_CRC1(s, d) ==
  Step([s EXCEPT !.crc_recv = (d * 256) % U16, !.state = "TRANS_CRC2"],
       <<>>, -1)

\* TRANS_CRC2 that starts the retry count afresh on a good block
handlebyte_CRC2_retry_reset(s, d) ==
  LET recv == BitOr(s.crc_recv, d)
  IN  IF recv = s.current_crc THEN
        Step([s EXCEPT !.crc_recv = recv,
                       !.last_succeeded_block = s.blocknum,
                       !.retrycount = 0,
                       !.state = "TRANS_AWAIT"], <<X_ACK>>, -1)
      ELSE
        Step([s EXCEPT !.crc_recv = recv,
                       !.mempos = (s.mempos - BlockLen) % U16,
                       !.state = "TRANS_AWAIT"], <<X_NAK>>, -1)

\* state == TRANS_CRC2
handlebyte_CRC2(s, d) ==
  LET recv == BitOr(s.crc_recv, d)
  IN  IF recv = s.current_crc THEN
        Step([s EXCEPT !.crc_recv = recv,
                       !.last_succeeded_block = s.blocknum,
                       !.state = "TRANS_AWAIT"], <<X_ACK>>, -1)
      ELSE
        Step([s EXCEPT !.crc_recv = recv,
                       !.mempos = (s.mempos - BlockLen) % U16,
                       !.state = "TRANS_AWAIT"], <<X_NAK>>, -1)

\* handlebyte(d) on statics s.  The if-chain of the source tests the state
\* (and for TRANS_AWAIT the byte) in the order AWAIT/SOH, BLOCK, BLOCK2,
\* AWAIT/EOT, AWAIT/ETB, AWAIT, RUN, CRC1, CRC2; the states exclude each
\* other, so the chain is a dispatch on the state.  Any other state falls
\* through to the final return TRANS_RUN.
handlebyte(s, d) ==
  CASE s.state = "TRANS_AWAIT"  -> handlebyte_AWAIT(s, d)
    [] s.state = "TRANS_BLOCK"  -> handlebyte_BLOCK(s, d)
    [] s.state = "TRANS_BLOCK2" -> handlebyte_BLOCK2(s, d)
    [] s.state = "TRANS_RUN"    -> handlebyte_RUN(s, d)
    [] s.state = "TRANS_CRC1"   -> handlebyte_CRC1(s, d)
    [] s.state = "TRANS_CRC2"   -> handlebyte_CRC2(s, d)
    [] OTHER -> Step([s EXCEPT !.state = "TRANS_RUN"], <<>>, -1)

\* ------------------------------------------------- observing the receiver

\* No frame seen yet.
NoFrame == [blk |-> -1, acked |-> FALSE, slot |-> -1]
NoCommit == [blk |-> -1, slot |-> -1, payload |-> <<>>]

\* g before the first byte of a session
GhostInit ==
  [nbytes |-> 0, start_mempos |-> 0, start_last |-> 0, slot |-> -1,
   dup |-> FALSE, payload |-> <<>>, emitted |-> <<>>, oob |-> FALSE,
   frames |-> 0, prev |-> NoFrame, commit |-> NoCommit, stall |-> "none"]

\* g after handlebyte took statics s to r.s on byte d:
\*   nbytes        bytes consumed since the receiver last was in TRANS_AWAIT
\*   start_mempos  the cursor when the frame's SOH was accepted
\*   start_last    last_succeeded_block when the frame's SOH was accepted
\*   slot          the cursor when the frame's first payload byte is stored
\*   dup           the frame was taken for a retransmission in TRANS_BLOCK2
\*   payload       the payload bytes of the frame received so far
\*   emitted       what handlebyte emitted since the frame's SOH
\*   oob           some payload byte was stored outside the buffer
\*   frames        frames completed (answered with ACK or NAK)
\*   prev          the frame completed before the current one
\*   commit        the frame ACKed last
\*   stall         the state the receiver was in when it last timed out
\*                 with bytes still on the line (set by LinkDownloadTimeout)
Observe(gh, s, d, r) ==
  LET acked == (r.out = <<X_ACK>>)
  IN
  CASE s.state = "TRANS_AWAIT" /\ d = X_SOH ->
         [gh EXCEPT !.nbytes = 1, !.start_mempos = s.mempos,
                    !.start_last = s.last_succeeded_block, !.slot = -1,
                    !.dup = FALSE, !.payload = <<>>, !.emitted = <<>>,
                    !.prev = IF gh.frames = 0 THEN NoFrame
                             ELSE [blk |-> s.blocknum,
                                   acked |-> gh.emitted = <<X_ACK>>,
                                   slot |-> gh.slot]]
    [] s.state = "TRANS_AWAIT" /\ d # X_SOH ->
         [gh EXCEPT !.nbytes = 1, !.emitted = r.out]
    [] s.state = "TRANS_BLOCK2" ->
         [gh EXCEPT !.nbytes = gh.nbytes + 1,
                    !.slot = IF r.s.state = "TRANS_RUN" THEN r.s.mempos ELSE -1,
                    !.dup = (r.s.mempos # s.mempos)]
    [] s.state = "TRANS_RUN" ->
         [gh EXCEPT !.nbytes = gh.nbytes + 1,
                    !.payload = Append(gh.payload, d),
                    !.oob = gh.oob \/ r.store >= XMOD_BUFFSIZE]
    [] s.state = "TRANS_CRC2" ->
         [gh EXCEPT !.nbytes = gh.nbytes + 1,
                    !.emitted = gh.emitted \o r.out,
                    !.frames = gh.frames + 1,
                    !.commit = IF acked
                               THEN [blk |-> s.blocknum, slot |-> gh.slot,
                                     payload |-> gh.payload]
                               ELSE gh.commit]
    [] OTHER ->
         [gh EXCEPT !.nbytes = gh.nbytes + 1,
                    !.emitted = gh.emitted \o r.out]

\* xlog after device `by` passed the bytes out to uart_putc
Logged(log, by, out) ==
  IF out = <<>> THEN log ELSE Append(log, [by |-> by, bytes |-> out])

\* ------------------------------------------------------------ xmod_download

\* ResetMillis()
ResetMillis(s) == [s EXCEPT !.millis = 0]

\* the loop of xmod_download ends on these states
Terminal(st) == st \in {"TRANS_ABORT", "TRANS_END"}

\* xmod_download up to the loop: the session is initialised and the
\* handshake byte is sent
xmod_download_start ==
  /\ dl.pc = "idle"
  /\ dl' = [dl EXCEPT !.mempos = 0, !.retrycount = 0,
                      !.last_succeeded_block = 0,
                      !.state = "TRANS_AWAIT", !.pc = "loop"]
  /\ ul_in' = Append(ul_in, X_C)
  /\ xlog' = Logged(xlog, "dl", <<X_C>>)
  /\ g' = GhostInit
  /\ UNCHANGED <<ul, dl_in, host>>

\* the timeout branch that also gives up the frame in progress
download_idle_restarts(s) ==
  IF s.millis <= TIMEOUT_MS THEN Step(s, <<>>, -1)
  ELSE IF s.retrycount > MAXRETRY THEN
    Step([s EXCEPT !.state = "TRANS_ABORT"], <<>>, -1)
  ELSE
    Step(ResetMillis([s EXCEPT !.retrycount = s.retrycount + 1,
                               !.state = "TRANS_AWAIT"]), <<X_C>>, -1)

\* one iteration of the loop with no byte available: wait, abort, or retry
download_idle(s) ==
  IF s.millis <= TIMEOUT_MS THEN Step(s, <<>>, -1)
  ELSE IF s.retrycount > MAXRETRY THEN
    Step([s EXCEPT !.state = "TRANS_ABORT"], <<>>, -1)
  ELSE
    Step(ResetMillis([s EXCEPT !.retrycount = s.retrycount + 1]), <<X_C>>, -1)

DownloadIdle ==
  /\ dl.pc = "loop"
  /\ dl_in = <<>>
  /\ LET r == download_idle(dl)
     IN  /\ dl' = [r.s EXCEPT !.pc = IF Terminal(r.s.state) THEN "drain"
                                     ELSE "loop"]
         /\ ul_in' = ul_in \o r.out
         /\ xlog' = Logged(xlog, "dl", r.out)
  /\ UNCHANGED <<ul, dl_in, host, g>>

\* one iteration of the loop with a byte available.  A store outside the
\* buffer is undefined: it either lands in memory the session does not use
\* (the session goes on) or damages something (pc "undefined": nothing more
\* is known about the device).
DownloadByte ==
  /\ dl.pc = "loop"
  /\ dl_in # <<>>
  /\ LET d == Head(dl_in)
         r == handlebyte(dl, d)
     IN  /\ \E damage \in IF r.store >= XMOD_BUFFSIZE THEN {FALSE, TRUE}
                          ELSE {FALSE} :
              dl' = [ResetMillis(r.s) EXCEPT
                       !.pc = IF damage THEN "undefined"
                              ELSE IF Terminal(r.s.state) THEN "drain"
                              ELSE "loop"]
         /\ ul_in' = ul_in \o r.out
         /\ xlog' = Logged(xlog, "dl", r.out)
         /\ g' = Observe(g, dl, d, r)
  /\ dl_in' = Tail(dl_in)
  /\ UNCHANGED <<ul, host>>

\* after the loop: eat up what is still available
DownloadDrain ==
  /\ dl.pc = "drain"
  /\ dl' = [dl EXCEPT !.pc = "done"]
  /\ dl_in' = <<>>
  /\ UNCHANGED <<ul, ul_in, host, g, xlog>>

\* time passes at the receiver while it waits for a byte
DownloadTick ==
  /\ dl.pc = "loop"
  /\ dl_in = <<>>
  /\ dl.millis <= TIMEOUT_MS
  /\ dl' = [dl EXCEPT !.millis = IF dl.millis < TIMEOUT_MS THEN TIMEOUT_MS
                                 ELSE TIMEOUT_MS + 1]
  /\ UNCHANGED <<ul, dl_in, ul_in, host, g, xlog>>

\* ----------------------------------------------------------------- the host

\* payloads the host and the sender's file are made of
Payloads == {1, 2}
Payload(p) == [i \in 1 .. BlockLen |-> (p * i) % U8]
PayloadCrc(p) == CrcOf(0, Payload(p), 1, BlockLen)

\* block numbers the host uses
BlockNums == {0, 1, 2}

\* A frame as the host puts it on the line: well formed ("ok"), with a CRC
\* that does not match the payload ("badcrc"), or with a wrong complement
\* byte ("badcomp").
HostFrame(b, p, kind) ==
  LET crc == IF kind = "badcrc" THEN (PayloadCrc(p) + 1) % U16
             ELSE PayloadCrc(p)
      comp == IF kind = "badcomp" THEN (256 - b) % U8 ELSE 255 - b
  IN  <<X_SOH, b, comp>> \o Payload(p) \o <<crc \div 256, crc % 256>>

\* what the host may transmit: frames, and single bytes
HostFrames ==
  [b : BlockNums, p : Payloads, kind : {"ok"}]
    \cup [b : {1}, p : {2}, kind : {"badcrc"}]
    \cup [b : {1}, p : {1}, kind : {"badcomp"}]
HostBytes == {X_EOT, X_ETB, X_CAN}

HostIdle == [sends |-> 0, b |-> -1, p |-> 0, kind |-> "none"]

\* the host has read the receiver's replies and may transmit
HostMaySend(max) ==
  /\ dl.pc = "loop"
  /\ dl_in = <<>>
  /\ host.sends < max
  /\ dl.retrycount <= MaxQuiet

HostFrameSent(max) ==
  /\ HostMaySend(max)
  /\ \E f \in HostFrames :
       /\ dl_in' = HostFrame(f.b, f.p, f.kind)
       /\ host' = [sends |-> host.sends + 1, b |-> f.b, p |-> f.p,
                   kind |-> f.kind]
  /\ ul_in' = <<>>
  /\ xlog' = <<>>
  /\ UNCHANGED <<dl, ul, g>>

HostByteSent(max) ==
  /\ HostMaySend(max)
  /\ \E c \in HostBytes :
       /\ dl_in' = <<c>>
       /\ host' = [sends |-> host.sends + 1, b |-> c, p |-> 0,
                   kind |-> "byte"]
  /\ ul_in' = <<>>
  /\ xlog' = <<>>
  /\ UNCHANGED <<dl, ul, g>>

HostSendFrame == HostFrameSent(MaxHostSends)
HostSendByte == HostByteSent(MaxHostSends)
DeepSendFrame == HostFrameSent(MaxDeepSends)
DeepSendByte == HostByteSent(MaxDeepSends)

\* ------------------------------------------------ receiver against a host

Init ==
  /\ dl \in {Device(ZeroBuffer, ms) : ms \in TimerValues}
  /\ ul = Device(ZeroBuffer, 0)
  /\ dl_in = <<>>
  /\ ul_in = <<>>
  /\ host = HostIdle
  /\ g = GhostInit
  /\ xlog = <<>>

Next ==
  \/ xmod_download_start
  \/ DownloadIdle
  \/ DownloadByte
  \/ DownloadDrain
  \/ DownloadTick
  \/ HostSendFrame
  \/ HostSendByte

Spec == Init /\ [][Next]_vars

\* the same, with a host that transmits more
NextDeep ==
  \/ xmod_download_start
  \/ DownloadIdle
  \/ DownloadByte
  \/ DownloadDrain
  \/ DownloadTick
  \/ DeepSendFrame
  \/ DeepSendByte

SpecDeep == Init /\ [][NextDeep]_vars

\* ------------------------------------------------------------- the send side

\* the bytes of s from index lo to index hi of a buffer, as a sequence
Slice(buf, lo, hi) == [i \in 1 .. hi - lo + 1 |-> buf[lo + i - 1]]

\* xmod_sendblock that sends only the low byte of the CRC
xmod_sendblock_crc_low_only(s) ==
  LET off0 == (BlockLen * (s.blocknum - 1)) % U16
      offset == IF off0 >= XMOD_BUFFSIZE THEN 0 ELSE off0
      bytes == Slice(s.buffer, offset, offset + BlockLen - 1)
      crc == CrcOf(0, bytes, 1, BlockLen)
  IN  [s |-> [s EXCEPT !.current_crc = crc],
       out |-> <<X_SOH, s.blocknum, 255 - s.blocknum>> \o bytes
               \o <<crc % U8>>]

\* xmod_sendblock() on statics s: the statics afterwards and the bytes passed
\* to uart_putc.  offset is a uint16_t: 128 * (blocknum - 1) is reduced
\* modulo 2^16 before the test against XMOD_BUFFSIZE.  The function is declared
\* to return a STATE and returns nothing.
xmod_sendblock(s) ==
  LET off0 == (BlockLen * (s.blocknum - 1)) % U16
      offset == IF off0 >= XMOD_BUFFSIZE THEN 0 ELSE off0
      bytes == Slice(s.buffer, offset, offset + BlockLen - 1)
      crc == CrcOf(0, bytes, 1, BlockLen)
  IN  [s |-> [s EXCEPT !.current_crc = crc],
       out |-> <<X_SOH, s.blocknum, 255 - s.blocknum>> \o bytes
               \o <<(crc \div 256) % U8, crc % U8>>]

\* xmod_upload up to the loop.  retrycount keeps the value it has.
xmod_upload_start ==
  /\ ul.pc = "idle"
  /\ ul' = [ul EXCEPT !.state = "TRANS_AWAIT", !.blocknum = 1,
                      !.last_succeeded_block = 0, !.pc = "loop"]
  /\ UNCHANGED <<dl, dl_in, ul_in, host, g, xlog>>

\* one iteration of the loop with no byte available: wait, abort, or count
upload_idle(s) ==
  IF s.millis <= TIMEOUT_MS THEN s
  ELSE IF s.retrycount > MAXRETRY THEN [s EXCEPT !.state = "TRANS_ABORT"]
  ELSE ResetMillis([s EXCEPT !.retrycount = s.retrycount + 1])

UploadIdle ==
  /\ ul.pc = "loop"
  /\ ul_in = <<>>
  /\ LET s == upload_idle(ul)
     IN  ul' = [s EXCEPT !.pc = IF Terminal(s.state) THEN "done" ELSE "loop"]
  /\ UNCHANGED <<dl, dl_in, ul_in, host, g, xlog>>

\* The values `state = xmod_sendblock()` can store: the function returns
\* without a value, so the value read is indeterminate.
SendblockResult == STATES

\* the loop body for a byte in which the end of the file is tested one
\* block late
upload_byte_late_end(s0, d) ==
  LET s == ResetMillis(s0)
  IN  IF d = X_C THEN
        LET r == xmod_sendblock([s EXCEPT !.blocknum = 1])
        IN  {[s |-> [r.s EXCEPT !.state = v], out |-> r.out] :
               v \in SendblockResult}
      ELSE IF d = X_ACK /\ (s.blocknum + 1) % U8 = XMOD_BUFFSIZE \div BlockLen + 2
      THEN
        {[s |-> [s EXCEPT !.blocknum = (s.blocknum + 1) % U8,
                          !.state = "TRANS_END"],
          out |-> <<X_EOT>>]}
      ELSE IF d = X_ACK THEN
        {xmod_sendblock([s EXCEPT !.blocknum = (s.blocknum + 1) % U8])}
      ELSE
        {xmod_sendblock(s)}

\* one iteration of the loop with byte d available: the outcomes, each the
\* statics afterwards and the bytes passed to uart_putc
upload_byte(s0, d) ==
  LET s == ResetMillis(s0)
  IN  IF d = X_C THEN
        LET r == xmod_sendblock([s EXCEPT !.blocknum = 1])
        IN  {[s |-> [r.s EXCEPT !.state = v], out |-> r.out] :
               v \in SendblockResult}
      ELSE IF d = X_ACK /\ (s.blocknum + 1) % U8 = XMOD_BUFFSIZE \div BlockLen + 1
      THEN
        {[s |-> [s EXCEPT !.blocknum = (s.blocknum + 1) % U8,
                          !.state = "TRANS_END"],
          out |-> <<X_EOT>>]}
      ELSE IF d = X_ACK THEN
        {xmod_sendblock([s EXCEPT !.blocknum = (s.blocknum + 1) % U8])}
      ELSE
        {xmod_sendblock(s)}

UploadByte ==
  /\ ul.pc = "loop"
  /\ ul_in # <<>>
  /\ \E r \in upload_byte(ul, Head(ul_in)) :
       /\ ul' = [r.s EXCEPT !.pc = IF Terminal(r.s.state) THEN "done"
                                   ELSE "loop"]
       /\ dl_in' = dl_in \o r.out
       /\ xlog' = Logged(xlog, "ul", r.out)
  /\ ul_in' = Tail(ul_in)
  /\ UNCHANGED <<dl, host, g>>

\* ---------------------------------- sender and receiver, no timeout firing

\* the sender's file: payload p1 in block 1, payload p2 in block 2
File(p1, p2) ==
  [i \in 0 .. XMOD_BUFFSIZE - 1 |->
     IF i < BlockLen THEN Payload(p1)[i + 1] ELSE Payload(p2)[i - BlockLen + 1]]

\* Both timers at 0 and never advancing: no timeout fires.  The channel is
\* lossless and in order: what one device passes to uart_putc arrives at the
\* other's UART.
InitHappy ==
  /\ dl = Device(ZeroBuffer, 0)
  /\ ul \in {Device(File(p1, p2), 0) : p1 \in Payloads, p2 \in Payloads}
  /\ dl_in = <<>>
  /\ ul_in = <<>>
  /\ host = HostIdle
  /\ g = GhostInit
  /\ xlog = <<>>

NextHappy ==
  \/ xmod_download_start
  \/ DownloadIdle
  \/ DownloadByte
  \/ DownloadDrain
  \/ xmod_upload_start
  \/ UploadIdle
  \/ UploadByte

SpecHappy == InitHappy /\ [][NextHappy]_vars

\* --------------------------------------------- sender against a host

\* what the host may transmit to the sender: the handshake byte, ACK, NAK,
\* and a byte that is none of them
UpHostBytes == {X_C, X_ACK, X_NAK, 0}

\* blocks: the block numbers of the frames the host has read off the line
UpHostIdle == [sends |-> 0, b |-> -1, p |-> 0, kind |-> "none", blocks |-> {}]

\* the block numbers of the frames in a log of transmissions
BlocksIn(log) ==
  {log[i].bytes[2] : i \in {j \in 1 .. Len(log) : Len(log[j].bytes) > 1}}

\* The sender runs on a device whose statics are those of program start; its
\* buffer holds a two-block file.
InitUpload ==
  /\ dl = Device(ZeroBuffer, 0)
  /\ ul \in {Device(File(1, 2), ms) : ms \in TimerValues}
  /\ dl_in = <<>>
  /\ ul_in = <<>>
  /\ host = UpHostIdle
  /\ g = GhostInit
  /\ xlog = <<>>

\* the host reads what the sender has transmitted and transmits one byte
UpHostSend ==
  /\ ul.pc = "loop"
  /\ ul_in = <<>>
  /\ host.sends < MaxUpSends
  /\ \E c \in UpHostBytes :
       /\ ul_in' = <<c>>
       /\ host' = [sends |-> host.sends + 1, b |-> c, p |-> 0,
                   kind |-> "byte",
                   blocks |-> host.blocks \cup BlocksIn(xlog)]
  /\ dl_in' = <<>>
  /\ xlog' = <<>>
  /\ UNCHANGED <<dl, ul, g>>

\* time passes at the sender while it waits for a byte
UploadTick ==
  /\ ul.pc = "loop"
  /\ ul_in = <<>>
  /\ ul.millis <= TIMEOUT_MS
  /\ ul' = [ul EXCEPT !.millis = IF ul.millis < TIMEOUT_MS THEN TIMEOUT_MS
                                 ELSE TIMEOUT_MS + 1]
  /\ UNCHANGED <<dl, dl_in, ul_in, host, g, xlog>>

\* xmod_upload has returned and the application calls it again: the statics
\* keep their values between the calls; the host starts a new record of
\* what it reads
UploadAgain ==
  /\ ul.pc = "done"
  /\ ul' = [ul EXCEPT !.pc = "idle"]
  /\ host' = [host EXCEPT !.blocks = {}]
  /\ dl_in' = <<>>
  /\ xlog' = <<>>
  /\ UNCHANGED <<dl, ul_in, g>>

NextUpload ==
  \/ xmod_upload_start
  \/ UploadIdle
  \/ UploadTick
  \/ UploadByte
  \/ UpHostSend
  \/ UploadAgain

SpecUpload == InitUpload /\ [][NextUpload]_vars

\* ------------------------------- sender and receiver, delays on the line

\* The line is lossless and in order, and a byte may stay on it for any
\* time: dl_in and ul_in hold the bytes that are on the line or have arrived,
\* oldest first, and uart_available() is false for as long as the oldest one
\* has not arrived.  So each device may find no byte and its timeout elapsed
\* whatever its queue holds.

\* The devices react to nothing but the order of the bytes in their own
\* queue and their own timeouts, so a step of the sender and a step of the
\* receiver give the same result in either order.  The steps are taken in
\* one of the orders: the sender takes a byte as soon as one is in its
\* queue, and the receiver (whose timeouts fire whatever its queue holds)
\* runs while the sender has none.
SenderIdle == ul.pc = "done" \/ (ul.pc = "loop" /\ ul_in = <<>>)

LinkDownloadByte == SenderIdle /\ DownloadByte

\* the timer of the receiver passes TIMEOUT_MS with no byte arrived, and the
\* loop runs its timeout branch; g.stall keeps the state this happened in
LinkDownloadTimeout ==
  /\ SenderIdle
  /\ dl.pc = "loop"
  /\ dl.retrycount < MaxLinkRetries
  /\ LET r == download_idle([dl EXCEPT !.millis = TIMEOUT_MS + 1])
     IN  /\ dl' = [r.s EXCEPT !.pc = IF Terminal(r.s.state) THEN "drain"
                                     ELSE "loop"]
         /\ ul_in' = ul_in \o r.out
         /\ xlog' = Logged(xlog, "dl", r.out)
  /\ g' = [g EXCEPT !.stall = dl.state]
  /\ UNCHANGED <<ul, dl_in, host>>

\* the same at the sender
LinkUploadTimeout ==
  /\ ul.pc = "loop"
  /\ ul_in = <<>>
  /\ ul.retrycount < MaxLinkRetries
  /\ LET s == upload_idle([ul EXCEPT !.millis = TIMEOUT_MS + 1])
     IN  ul' = [s EXCEPT !.pc = IF Terminal(s.state) THEN "done" ELSE "loop"]
  /\ UNCHANGED <<dl, dl_in, ul_in, host, g, xlog>>

InitLink ==
  /\ dl = Device(ZeroBuffer, 0)
  /\ ul = Device(File(1, 2), 0)
  /\ dl_in = <<>>
  /\ ul_in = <<>>
  /\ host = HostIdle
  /\ g = GhostInit
  /\ xlog = <<>>

NextLink ==
  \/ xmod_download_start
  \/ LinkDownloadByte
  \/ DownloadDrain
  \/ LinkDownloadTimeout
  \/ xmod_upload_start
  \/ UploadByte
  \/ LinkUploadTimeout

SpecLink == InitLink /\ [][NextLink]_vars

\* ------------------------------------------- xmod_crc_update on its own

\* accumulators and bytes the fold is started with
CrcAccs == {0, 1, 255, 4129, 21845, 32767, 32768, 43690, 65280, 65535}
CrcBytes == {0, 1, 49, 128, 255}

RECURSIVE SeqsUpTo(_, _)
\* the sequences over S of length 1 .. n
SeqsUpTo(S, n) ==
  IF n = 0 THEN {}
  ELSE {<<x>> : x \in S}
         \cup {Append(q, x) : q \in SeqsUpTo(S, n - 1), x \in S}

\* the inputs: every single byte, short sequences, and the digits "123456789"
CrcInputs ==
  {<<b>> : b \in 0 .. U8 - 1} \cup SeqsUpTo(CrcBytes, MaxCrcLen)
    \cup {<<49, 50, 51, 52, 53, 54, 55, 56, 57>>}

\* current_crc holds the accumulator, dl_in the bytes still to fold
InitCrc ==
  /\ dl \in {[Device(ZeroBuffer, 0) EXCEPT !.current_crc = a] : a \in CrcAccs}
  /\ ul = Device(ZeroBuffer, 0)
  /\ dl_in \in CrcInputs
  /\ ul_in = <<>>
  /\ host = HostIdle
  /\ g = GhostInit
  /\ xlog = <<>>

\* current_crc = xmod_crc_update(current_crc, d) for the next byte d; xlog
\* keeps the accumulator before, the byte, and the accumulator after
CrcFeed ==
  /\ dl_in # <<>>
  /\ dl' = [dl EXCEPT
              !.current_crc = xmod_crc_update(dl.current_crc, Head(dl_in))]
  /\ xlog' = Append(xlog,
                    [by |-> "crc",
                     bytes |-> <<dl.current_crc, Head(dl_in),
                                 xmod_crc_update(dl.current_crc, Head(dl_in))>>])
  /\ dl_in' = Tail(dl_in)
  /\ UNCHANGED <<ul, ul_in, host, g>>

NextCrc == CrcFeed

SpecCrc == InitCrc /\ [][NextCrc]_vars

\* ------------------------------------------------------------------- claims

\* bytes of one frame on the line: SOH, block number, complement, payload, CRC
FrameLen == 3 + BlockLen + 2

IsPrefix(a, b) == Len(a) <= Len(b) /\ SubSeq(b, 1, Len(a)) = a

\* a well-formed frame for block b with the payload bytes
GoodFrame(b, bytes) ==
  <<X_SOH, b, 255 - b>> \o bytes
    \o <<CrcOf(0, bytes, 1, BlockLen) \div 256, CrcOf(0, bytes, 1, BlockLen) % 256>>

\* the receiver has just answered the frame the host sent last and is back
\* in TRANS_AWAIT with nothing further queued
FrameAnswered ==
  dl.state = "TRANS_AWAIT" /\ g.nbytes = FrameLen /\ dl_in = <<>>

\* the receiver is past the complement byte of the frame the host sent last
InPayload ==
  /\ g.slot # -1
  /\ g.nbytes >= 3
  /\ dl.state = "TRANS_AWAIT" => dl_in = <<>>

\* the bytes of the receiver's buffer in the 128-byte slot starting at slot
SlotBytes(slot) == Slice(dl.buffer, slot, slot + BlockLen - 1)

\* the exchange of the happy path for the sender's two-block file
HappyExchange ==
  << [by |-> "dl", bytes |-> <<X_C>>],
     [by |-> "ul", bytes |-> GoodFrame(1, Slice(ul.buffer, 0, BlockLen - 1))],
     [by |-> "dl", bytes |-> <<X_ACK>>],
     [by |-> "ul", bytes |-> GoodFrame(2, Slice(ul.buffer, BlockLen,
                                                2 * BlockLen - 1))],
     [by |-> "dl", bytes |-> <<X_ACK>>],
     [by |-> "ul", bytes |-> <<X_EOT>>],
     [by |-> "dl", bytes |-> <<X_ACK, X_ACK>>] >>

\* C1: with no timeout firing and a lossless in-order channel, the exchange
\* over a 2-block buffer is 'C', block 1, ACK, block 2, ACK, EOT, ACK ACK; the
\* sender ends in END after sending EOT, and the receiver ends in END with
\* cursor 256 and a buffer equal to the sender's.
C1_HappyPath ==
  /\ IsPrefix(xlog, HappyExchange)
  /\ ul.pc = "done" => ul.state = "TRANS_END" /\ Len(xlog) >= 6
  /\ dl.pc = "done" => /\ dl.state = "TRANS_END"
                       /\ dl.mempos = XMOD_BUFFSIZE
                       /\ dl.buffer = ul.buffer
                       /\ xlog = HappyExchange

\* C2: a frame of block N (N >= 1, the block numbers a transfer uses) whose
\* CRC does not match is answered with NAK only, the cursor is back where the
\* payload started, and the last committed block number is unchanged; the
\* retransmission of block N with a matching CRC that follows is stored in
\* the same slot, answered with ACK, and leaves the cursor 128 past the slot.
C2_NakThenRetransmit ==
  /\ (FrameAnswered /\ host.kind = "badcrc" /\ dl.blocknum >= 1)
       => /\ g.emitted = <<X_NAK>>
          /\ dl.mempos = g.slot
          /\ dl.last_succeeded_block = g.start_last
  /\ (InPayload /\ host.kind = "ok" /\ dl.blocknum >= 1
        /\ g.prev.blk = dl.blocknum /\ ~g.prev.acked)
       => /\ g.slot = g.prev.slot
          /\ FrameAnswered => /\ g.emitted = <<X_ACK>>
                              /\ dl.mempos = g.prev.slot + BlockLen
                              /\ dl.last_succeeded_block = dl.blocknum

\* C3: a frame that repeats the block number committed by the frame before
\* it, whether its CRC matches or not, is answered with ACK, leaves the slot
\* of that block holding the payload received last with a valid CRC, and
\* leaves the cursor at the end of that slot.
C3_DuplicateIsNoOp ==
  (FrameAnswered /\ g.prev.acked /\ g.prev.blk = dl.blocknum
     /\ g.commit.slot < XMOD_BUFFSIZE)
    => /\ g.emitted = <<X_ACK>>
       /\ SlotBytes(g.commit.slot) = g.commit.payload
       /\ dl.mempos = g.commit.slot + BlockLen

\* C4: a well-formed frame with a matching CRC that repeats the committed
\* block number k >= 1 rewinds the cursor by 128 at the complement byte, is
\* stored in the slot block k was committed to, is answered with ACK, and
\* ends in AWAIT with the cursor where it was before the frame and the last
\* committed block number still k.
C4_LostAckDuplicate ==
  (InPayload /\ host.kind = "ok" /\ g.start_last >= 1
     /\ dl.blocknum = g.start_last)
    => /\ g.dup
       /\ g.slot = (g.start_mempos - BlockLen) % U16
       /\ g.slot = g.commit.slot
       /\ FrameAnswered => /\ g.emitted = <<X_ACK>>
                           /\ dl.mempos = g.start_mempos
                           /\ dl.last_succeeded_block = g.start_last

\* C5: in a download during which no byte arrives, the session aborts on the
\* 16th polling iteration that finds the timeout elapsed: it never survives
\* a 16th such iteration, and at the abort 'C' has been emitted 16 times
\* (15 retries).
C5_AbortOn16thTimeout ==
  host.sends = 0 =>
    /\ dl.retrycount <= MAXRETRY
    /\ dl.state = "TRANS_ABORT" => dl.retrycount = MAXRETRY /\ Len(ul_in) = 16

\* a byte that violates the protocol in the state the receiver is in
Violation(s, d) ==
  \/ s.state = "TRANS_AWAIT" /\ d \notin {X_SOH, X_EOT, X_ETB}
  \/ s.state = "TRANS_BLOCK2" /\ d # 255 - s.blocknum

\* C6: a protocol violation is fatal and immediate.  The step that consumes
\* a byte other than SOH, EOT, ETB in AWAIT, or a wrong complement in BLOCK2,
\* ends in ABORT, emits nothing, writes no buffer byte and leaves the cursor;
\* the loop is left in that step, and once it is left no byte is processed:
\* state, buffer, cursor, emitted bytes and frame bookkeeping stay as they are.
C6_ViolationIsFatal ==
  [][ /\ (dl.pc = "loop" /\ dl_in # <<>> /\ dl_in' = Tail(dl_in)
            /\ Violation(dl, Head(dl_in)))
         => /\ dl'.state = "TRANS_ABORT"
            /\ dl'.pc = "drain"
            /\ ul_in' = ul_in
            /\ dl'.buffer = dl.buffer
            /\ dl'.mempos = dl.mempos
      /\ dl.pc \in {"drain", "done"}
         => /\ dl'.pc \in {"drain", "done"}
            /\ dl'.state = dl.state
            /\ dl'.buffer = dl.buffer
            /\ dl'.mempos = dl.mempos
            /\ ul_in' = ul_in
            /\ g' = g ]_vars

\* C6 witness: a download that ended in ABORT on the complement byte of a
\* frame whose complement is wrong
C6_Witness ==
  /\ dl.pc = "done"
  /\ dl.state = "TRANS_ABORT"
  /\ host.kind = "badcomp"
  /\ g.nbytes = 3
  /\ dl_in = <<>>

\* the host's last send is an end-of-transmission byte and it was consumed
EndByteConsumed ==
  host.kind = "byte" /\ host.b \in {X_EOT, X_ETB} /\ dl_in = <<>>
    /\ dl.pc # "undefined"

\* C7, amended: a download leaves its loop only in END or ABORT, and it is in
\* END exactly when EOT or ETB was received in AWAIT, whatever number of
\* blocks has been committed before, zero included.
C7_EndOnEndByte ==
  /\ dl.pc \in {"drain", "done"} => dl.state \in {"TRANS_END", "TRANS_ABORT"}
  /\ dl.state \in {"TRANS_END", "TRANS_ABORT"} => dl.pc \in {"drain", "done"}
  /\ dl.state = "TRANS_END" => EndByteConsumed /\ g.nbytes = 1
  /\ EndByteConsumed
       => /\ dl.state = "TRANS_END"
          /\ g.emitted = IF host.b = X_EOT THEN <<X_ACK, X_ACK>> ELSE <<X_ACK>>

\* C7 witness: a download that ended in END on ETB with no block committed
C7_Witness ==
  /\ dl.pc = "done"
  /\ dl.state = "TRANS_END"
  /\ host.b = X_ETB
  /\ g.commit = NoCommit
  /\ dl.mempos = 0

\* C7: a download is in END only when blocks have been committed; END is
\* never reached with zero blocks committed.
C7_NoPartialSuccess ==
  dl.state = "TRANS_END" => g.commit # NoCommit /\ dl.mempos > 0

\* C8: the buffer is used circularly.  Every payload byte of a frame that
\* starts with the cursor inside 0 .. XMOD_BUFFSIZE and is not a duplicate is
\* written at an index below XMOD_BUFFSIZE; a block received when the buffer
\* is full starts again at index 0.
C8_CircularBuffer ==
  (g.nbytes >= 3 /\ g.slot # -1 /\ ~g.dup /\ g.start_mempos <= XMOD_BUFFSIZE)
    => g.slot + BlockLen <= XMOD_BUFFSIZE

\* the frames the sender has put on the line
SentFrames ==
  {xlog[i].bytes : i \in {j \in 1 .. Len(xlog) :
                            xlog[j].by = "ul" /\ xlog[j].bytes # <<X_EOT>>}}

\* offset of block b in the sender's buffer
SendOffset(b) ==
  IF (BlockLen * (b - 1)) % U16 >= XMOD_BUFFSIZE THEN 0
  ELSE (BlockLen * (b - 1)) % U16

\* f is, in this order: SOH, a block number, its complement, the 128 bytes
\* of that block in the sender's buffer, the high and the low byte of their CRC
WellFormed(f) ==
  /\ f[1] = X_SOH
  /\ f[2] \in 0 .. U8 - 1
  /\ f[3] = 255 - f[2]
  /\ SubSeq(f, 4, 3 + BlockLen)
       = Slice(ul.buffer, SendOffset(f[2]), SendOffset(f[2]) + BlockLen - 1)
  /\ f[4 + BlockLen] * 256 + f[5 + BlockLen]
       = CrcOf(0, SubSeq(f, 4, 3 + BlockLen), 1, BlockLen)

\* C9, amended: every call of the transmit driver emits one frame of 133
\* bytes, in the order SOH, block number, 0xFF minus block number, 128
\* payload bytes, CRC high byte, CRC low byte, and the receiver consumes 133
\* bytes to go from AWAIT back to AWAIT for one frame.
C9_FrameIs133Bytes ==
  /\ \A f \in SentFrames : Len(f) = FrameLen /\ WellFormed(f)
  /\ (dl.state = "TRANS_AWAIT" /\ g.nbytes > 0) => g.nbytes = FrameLen
  /\ (dl.state \notin {"TRANS_AWAIT", "TRANS_END"}) => g.nbytes < FrameLen

\* C9 witness: the sender has sent its second frame and the receiver has
\* answered it from AWAIT
C9_Witness ==
  /\ Cardinality(SentFrames) = 2
  /\ dl.state = "TRANS_AWAIT"
  /\ g.nbytes = FrameLen
  /\ g.frames = 2
  /\ g.emitted = <<X_ACK>>

\* C9: every frame the transmit driver emits is 132 bytes long, and the
\* receiver consumes 132 bytes to go from AWAIT back to AWAIT.
C9_FrameIs132Bytes ==
  /\ \A f \in SentFrames : Len(f) = 132
  /\ (dl.state = "TRANS_AWAIT" /\ g.nbytes > 0) => g.nbytes = 132

\* C10: after a valid frame (block number b, correct complement, matching
\* CRC) has been received and acknowledged, with every payload byte stored
\* inside the buffer, xmod_sendblock for block number b emits a frame whose
\* 128 payload bytes and CRC are those of the received frame.
C10_RoundTrip ==
  (FrameAnswered /\ dl.pc = "loop" /\ host.kind = "ok"
     /\ g.emitted = <<X_ACK>> /\ ~g.oob)
    => /\ SubSeq(xmod_sendblock(dl).out, 4, 3 + BlockLen) = g.payload
       /\ xmod_sendblock(dl).out[4 + BlockLen] * 256
            + xmod_sendblock(dl).out[5 + BlockLen] = dl.crc_recv

\* a as 16 bits, a byte as 8 bits, most significant first
Bits16(a) == [i \in 1 .. 16 |-> (a \div (2 ^ (16 - i))) % 2 = 1]
Bits8(b) == [i \in 1 .. 8 |-> (b \div (2 ^ (8 - i))) % 2 = 1]

RECURSIVE BitsValue(_)
\* the number a bit string stands for
BitsValue(x) ==
  IF x = <<>> THEN 0
  ELSE 2 * BitsValue(SubSeq(x, 1, Len(x) - 1))
         + (IF x[Len(x)] THEN 1 ELSE 0)

Zeros(n) == [i \in 1 .. n |-> FALSE]
XorBits(x, y) == [i \in 1 .. Len(x) |-> x[i] # y[i]]

\* the polynomial x^16 + x^12 + x^5 + 1: its 16 low coefficients, and all 17
RefPoly16 ==
  [i \in 1 .. 16 |-> i \in {16 - 12, 16 - 5, 16}]
RefPoly17 == <<TRUE>> \o RefPoly16

\* one shift round: shift left by one, XOR the polynomial in when the bit
\* shifted out is set
RefRound(x) ==
  IF x[1] THEN XorBits(Tail(x) \o <<FALSE>>, RefPoly16)
  ELSE Tail(x) \o <<FALSE>>

RECURSIVE RefRounds(_, _)
RefRounds(x, n) == IF n = 0 THEN x ELSE RefRounds(RefRound(x), n - 1)

\* the reference step: the byte is XORed into the high octet, then 8 rounds
RefStep(acc, b) ==
  BitsValue(RefRounds(XorBits(Bits16(acc), Bits8(b) \o Zeros(8)), 8))

RECURSIVE PolyMod(_)
\* the remainder of the bit string x, read as a polynomial over GF(2),
\* divided by x^16 + x^12 + x^5 + 1
PolyMod(x) ==
  IF Len(x) <= 16 THEN Zeros(16 - Len(x)) \o x
  ELSE IF x[1]
    THEN PolyMod(Tail(XorBits(x, RefPoly17 \o Zeros(Len(x) - 17))))
    ELSE PolyMod(Tail(x))

RECURSIVE BitsOf(_)
BitsOf(bytes) ==
  IF bytes = <<>> THEN <<>> ELSE Bits8(Head(bytes)) \o BitsOf(Tail(bytes))

\* the reference CRC of a whole byte sequence: the remainder of the message
\* followed by 16 zero bits
RefCrc(bytes) == BitsValue(PolyMod(BitsOf(bytes) \o Zeros(16)))

\* the bytes folded so far
Folded == [i \in 1 .. Len(xlog) |-> xlog[i].bytes[2]]

\* C11: every application of xmod_crc_update gives the reference step of the
\* MSB-first, non-reflected CRC with polynomial 0x1021 on the accumulator and
\* the byte it was applied to, gives a 16-bit value, and after folding a byte
\* sequence one byte at a time from accumulator 0 the accumulator is the
\* reference CRC of the whole sequence.
C11_CrcIsCcitt ==
  /\ \A i \in 1 .. Len(xlog) :
       /\ xlog[i].bytes[3] = RefStep(xlog[i].bytes[1], xlog[i].bytes[2])
       /\ xlog[i].bytes[3] \in 0 .. U16 - 1
  /\ (xlog # <<>> /\ xlog[1].bytes[1] = 0) => dl.current_crc = RefCrc(Folded)

\* C11 witness: the digits "123456789" folded from accumulator 0
C11_Witness ==
  /\ dl_in = <<>>
  /\ Folded = <<49, 50, 51, 52, 53, 54, 55, 56, 57>>
  /\ xlog[1].bytes[1] = 0
  /\ dl.current_crc = 12739

\* blocks the sender's buffer holds
NumBlocks == XMOD_BUFFSIZE \div BlockLen

\* this step is the sender's loop taking byte c off its UART
UploadConsumes(c) ==
  ul.pc = "loop" /\ ul_in # <<>> /\ Head(ul_in) = c /\ ul_in' = Tail(ul_in)

\* the frame of block b of the sender's buffer
FrameOfBlock(b) ==
  GoodFrame(b, Slice(ul.buffer, BlockLen * (b - 1), BlockLen * b - 1))

\* C12: every upload begins with a freshly initialised session: when
\* xmod_upload enters its loop the retry counter is zero, also when an
\* earlier transfer has ended in ABORT by retry exhaustion.
C12_UploadStartsFresh ==
  [][(ul.pc = "idle" /\ ul'.pc = "loop") => ul'.retrycount = 0]_vars

\* C13: an upload ends in only two ways, in END right after emitting EOT in
\* response to an ACK received while the current block is the last one, or
\* in ABORT through retry exhaustion on timeout; receiving 'C' resets the
\* block number to 1, sends block 1 and leaves the session running.
C13_UploadEndings ==
  [][ /\ UploadConsumes(X_C)
         => /\ ul'.blocknum = 1
            /\ dl_in' = dl_in \o FrameOfBlock(1)
            /\ ul'.pc = "loop"
            /\ ul'.state \notin {"TRANS_END", "TRANS_ABORT"}
      /\ (ul.pc = "loop" /\ ul'.pc = "done")
         => \/ /\ ul'.state = "TRANS_END"
               /\ UploadConsumes(X_ACK)
               /\ ul.blocknum = NumBlocks
               /\ dl_in' = dl_in \o <<X_EOT>>
            \/ /\ ul'.state = "TRANS_ABORT"
               /\ ul_in = <<>>
               /\ ul.millis > TIMEOUT_MS
               /\ ul.retrycount > MAXRETRY ]_vars

\* C14: each ACK advances the block number by exactly one and sends the next
\* block; only the ACK that makes the block number exceed the number of
\* blocks emits EOT, once, and ends in END; an upload is in END only after
\* every block 1..N has been transmitted at least once.
C14_AckAdvances ==
  [][ /\ UploadConsumes(X_ACK)
         => /\ ul'.blocknum = ul.blocknum + 1
            /\ IF ul.blocknum + 1 > NumBlocks
               THEN dl_in' = dl_in \o <<X_EOT>> /\ ul'.state = "TRANS_END"
               ELSE /\ dl_in' = dl_in \o FrameOfBlock(ul.blocknum + 1)
                    /\ ul'.state = ul.state
      /\ (Len(dl_in') = Len(dl_in) + 1)
         => UploadConsumes(X_ACK) /\ ul.blocknum = NumBlocks
      /\ (ul'.pc = "done" /\ ul'.state = "TRANS_END")
         => (1 .. NumBlocks) \subseteq (host'.blocks \cup BlocksIn(xlog')) ]_vars

\* C15: every invocation of xmod_sendblock in an upload happens with a block
\* number in 1 .. XMOD_BUFFSIZE/128: the frame it puts on the line carries
\* such a number and the 128 bytes at offset 128*(blocknum-1), which is below
\* the buffer capacity, so the offset is never reset to 0.
C15_SendblockInRange ==
  [][ (ul.pc = "loop" /\ Len(dl_in') = Len(dl_in) + FrameLen)
        => /\ dl_in'[Len(dl_in) + 2] = ul'.blocknum
           /\ ul'.blocknum \in 1 .. NumBlocks
           /\ BlockLen * (ul'.blocknum - 1) < XMOD_BUFFSIZE
           /\ SubSeq(dl_in', Len(dl_in) + 4, Len(dl_in) + 3 + BlockLen)
                = Slice(ul.buffer, BlockLen * (ul'.blocknum - 1),
                        BlockLen * ul'.blocknum - 1) ]_vars

\* C15 witness: block 2 has been sent again in response to a NAK
C15_Witness ==
  /\ ul.pc = "loop"
  /\ host.b = X_NAK
  /\ ul_in = <<>>
  /\ Len(xlog) = 1
  /\ xlog[1].bytes[2] = 2
  /\ ul.blocknum = 2

\* this step is the receiver's loop taking a byte off its UART
DownloadConsumes == dl.pc = "loop" /\ dl_in # <<>> /\ dl_in' = Tail(dl_in)

\* this step is the receiver's loop finding no byte and the timeout elapsed
DownloadTimesOut ==
  dl.pc = "loop" /\ dl_in = <<>> /\ dl.millis > TIMEOUT_MS /\ dl' # dl

\* C16: in a download the retry counter is set to zero at session start and
\* never decreases afterwards; receiving a byte resets the timer and leaves
\* the retry counter; a timeout adds one to it, and the timeout that finds
\* it above the maximum aborts, whatever was received in between.
C16_RetryCountOnlyGrows ==
  [][ /\ (dl.pc = "idle" /\ dl'.pc = "loop") => dl'.retrycount = 0
      /\ dl.pc # "idle" => dl'.retrycount >= dl.retrycount
      /\ DownloadConsumes
         => dl'.retrycount = dl.retrycount /\ dl'.millis = 0
      /\ DownloadTimesOut
         => IF dl.retrycount > MAXRETRY
            THEN dl'.state = "TRANS_ABORT" /\ dl'.retrycount = dl.retrycount
            ELSE /\ dl'.retrycount = dl.retrycount + 1
                 /\ dl'.state = dl.state ]_vars

\* C16 witness: a download aborted by retry exhaustion in which one frame
\* was received and acknowledged after the first timeout: since the host
\* sent it the receiver has emitted the ACK and 'C' only MAXRETRY times
C16_Witness ==
  /\ dl.pc = "done"
  /\ dl.state = "TRANS_ABORT"
  /\ dl.retrycount = MAXRETRY + 1
  /\ host.sends = 1
  /\ g.frames = 1
  /\ g.emitted = <<X_ACK>>
  /\ Len(xlog) = MAXRETRY + 1

\* C17: every 128-byte rewind of the write cursor happens while the cursor
\* is at least 128, so the cursor never wraps below zero, and whenever the
\* state is AWAIT the cursor is a multiple of 128 between 0 and
\* XMOD_BUFFSIZE.
C17_CursorNeverUnderflows ==
  /\ g.dup => g.start_mempos >= BlockLen
  /\ (dl.state = "TRANS_AWAIT" /\ g.nbytes = FrameLen /\ g.emitted = <<X_NAK>>)
       => dl.mempos = g.slot /\ g.slot + BlockLen < U16
  /\ dl.state = "TRANS_AWAIT"
       => dl.mempos % BlockLen = 0 /\ dl.mempos <= XMOD_BUFFSIZE

\* C19: once SOH is accepted in AWAIT and the complement check has passed,
\* the next 128 bytes are taken as payload (counted, folded into the CRC,
\* stored at the cursor) and the next 2 as CRC whatever their values: none of
\* them ends, aborts or restarts the session.  The byte processed is the
\* oldest one that has arrived, nothing is emitted before the second CRC
\* byte, and exactly one byte, ACK or NAK, is emitted on it.  (Steps whose
\* store outside the buffer damages the device are not described.)
C19_PayloadTransparency ==
  [][ (DownloadConsumes /\ dl'.pc # "undefined")
        => /\ dl.state = "TRANS_RUN"
              => /\ dl'.state = IF dl.counter + 1 = BlockLen
                                THEN "TRANS_CRC1" ELSE "TRANS_RUN"
                 /\ dl'.counter = dl.counter + 1
                 /\ dl'.pc = "loop"
                 /\ ul_in' = ul_in
                 /\ g'.payload = Append(g.payload, Head(dl_in))
                 /\ dl.mempos < XMOD_BUFFSIZE
                      => dl'.buffer[dl.mempos] = Head(dl_in)
                 /\ dl'.mempos = (dl.mempos + 1) % U16
           /\ dl.state = "TRANS_CRC1"
              => /\ dl'.state = "TRANS_CRC2"
                 /\ dl'.pc = "loop"
                 /\ ul_in' = ul_in
                 /\ dl'.crc_recv = Head(dl_in) * 256
           /\ dl.state = "TRANS_CRC2"
              => /\ dl'.state = "TRANS_AWAIT"
                 /\ dl'.pc = "loop"
                 /\ dl'.crc_recv = dl.crc_recv + Head(dl_in)
                 /\ ul_in' \in {ul_in \o <<X_ACK>>, ul_in \o <<X_NAK>>}
                 /\ Len(g'.payload) = BlockLen
                 /\ g'.payload = Payload(host.p)
                 /\ g'.nbytes = FrameLen
                 /\ Len(g'.emitted) = 1
           /\ dl.state \in {"TRANS_BLOCK", "TRANS_BLOCK2"} => ul_in' = ul_in
    ]_vars

\* C19 witness: a frame whose payload holds SOH, EOT, ACK, NAK, ETB and CAN
\* has been received to its end and acknowledged
C19_Witness ==
  /\ FrameAnswered
  /\ dl.pc = "loop"
  /\ g.emitted = <<X_ACK>>
  /\ g.payload = Payload(1)
  /\ {X_SOH, X_EOT, X_ACK, X_NAK, X_ETB, X_CAN}
       \subseteq {g.payload[i] : i \in 1 .. BlockLen}

\* C18: with sender and receiver connected by a lossless in-order line on
\* which bytes may be delayed, so that timeouts fire at any point, whenever
\* the receiver is in END its buffer equals the sender's buffer and no
\* payload byte was written outside the buffer.
C18_LinkedTransfer ==
  dl.state = "TRANS_END" => dl.buffer = ul.buffer /\ ~g.oob

\* this step is the receiver's loop running its timeout branch without
\* aborting
DownloadRetries ==
  /\ dl.pc = "loop"
  /\ dl' # dl
  /\ dl_in' = dl_in
  /\ dl'.state # "TRANS_ABORT" \/ dl.state = "TRANS_ABORT"

\* C20: a download timeout that does not abort adds one to the retry
\* counter, resets the timer and emits exactly one 'C'; protocol state, block
\* number, payload byte counter, CRC accumulator, received CRC, write cursor,
\* last committed block and buffer stay as they are, so a timeout in the
\* middle of a frame leaves the receiver in the middle of that frame.
C20_TimeoutFrameEffect ==
  [][ DownloadRetries
        => /\ dl' = [dl EXCEPT !.retrycount = dl.retrycount + 1, !.millis = 0]
           /\ ul_in' = ul_in \o <<X_C>>
           /\ g'.payload = g.payload /\ g'.nbytes = g.nbytes ]_vars

\* C20 witness: the receiver has timed out among the payload bytes of a frame
\* and is still among them, 'C' being the last thing sent
C20_Witness ==
  /\ g.stall = "TRANS_RUN"
  /\ dl.state = "TRANS_RUN"
  /\ dl.counter > 0
  /\ dl.retrycount = 1
  /\ xlog[Len(xlog)] = [by |-> "dl", bytes |-> <<X_C>>]

====
